---- MODULE Spec2Model ----
(***************************************************************************)
(* Verification model of the retrieval path of the Hybrid RAG agent:       *)
(*   src/src/tools.py         semantic_search, text_search,                *)
(*                            reciprocal_rank_fusion, hybrid_search        *)
(*   src/src/dependencies.py  AgentDependencies (initialize, cleanup,      *)
(*                            get_embedding)                               *)
(*   src/src/database/clean_db.py  clean_db                                *)
(* and of the write path the spec describes (ingestion), whose code is not *)
(* among the repository's files.                                           *)
(*                                                                         *)
(* The specifications share the definitions below:                         *)
(*   SpecRRF   applies reciprocal_rank_fusion to bounded input lists;      *)
(*   Spec      runs semantic_search / text_search / hybrid_search on the   *)
(*             asyncio event loop against a store and failing              *)
(*             collaborators;                                              *)
(*   SpecStore runs ingestions, clean_db() and semantic_search against the *)
(*             documents and chunks tables;                                *)
(*   SpecPool  runs initialize() and cleanup() on one AgentDependencies;   *)
(*   SpecDegraded is Spec with a semantic channel whose embedding request  *)
(*             and store query may never be answered;                      *)
(*   SpecHistory runs add_to_history() and set_user_preference();          *)
(*   SpecRows  maps the rows a channel's query returned to SearchResults.  *)
(*                                                                         *)
(* Scores.  Python computes 1.0 / (k + rank) in floating point.  The model *)
(* keeps every score exactly, as an integer multiple of 1/Scale, where     *)
(* Scale is the product of (K_RRF + r) over every rank r a list can hold.  *)
(* Rounding of the float sums is not modelled.                             *)
(***************************************************************************)
EXTENDS Integers, Sequences, FiniteSets, TLC

\* ------------------------------------------------------------------ bounds

\* Longest ranked list handed to reciprocal_rank_fusion in SpecRRF.
MaxLen == 3

\* Largest match_count a caller passes (callers may pass more than the maximum).
MaxK == 3

\* Largest value of settings.default_match_count and settings.max_match_count.
MaxSetting == 2

\* hybrid_search always fuses two lists: [semantic_results, text_results].
NumLists == 2

\* k=60 in hybrid_search's call, and the default of reciprocal_rank_fusion.
K_RRF == 60

\* Chunk ids (opaque identifiers of rows of the chunks table).
ChunkIds == {"c1", "c2", "c3"}

MaxRank == IF MaxLen > Cardinality(ChunkIds) THEN MaxLen ELSE Cardinality(ChunkIds)

RECURSIVE RankProduct(_)
RankProduct(r) == IF r >= MaxRank THEN 1 ELSE (K_RRF + r) * RankProduct(r + 1)

\* One unit of score is 1/Scale; 1.0 is Scale.
Scale == RankProduct(0)

\* Most add_to_history calls of one session in SpecHistory.
MaxAdds == 12

\* "if len(self.query_history) > 10": the history keeps 10 queries.
HistoryLimit == 10

\* Most rows a query returns in SpecRows.
MaxRows == 2

\* --------------------------------------------------------------- variables

VARIABLES
    rrf_in,        \* SpecRRF: search_results_list, the argument of reciprocal_rank_fusion
    rrf_out,       \* SpecRRF: the list it returned
    rrf_pc,        \* SpecRRF: "call" before the call, "done" after it
    settings,      \* deps.settings: default_match_count, max_match_count, embedding_provider
    store,         \* the chunks table as the two queries rank it for the query text
    pg_pool,       \* deps.pg_pool is set
    openai_client, \* deps.openai_client is set
    pc,            \* where the caller's coroutine is
    call,          \* the tool call in progress: fn, match_count, text_weight
    h,             \* hybrid_search's locals
    sem,           \* the semantic_search coroutine
    txt,           \* the text_search coroutine
    loop_blocked,  \* the event loop's thread is inside a synchronous call
    outcome,       \* what the tool call gave its caller
    documents,     \* SpecStore: the committed rows of the documents table (their ids)
    chunks,        \* SpecStore: the committed rows of the chunks table
    ing,           \* SpecStore: the ingestion in progress and its open transaction
    cleaner,       \* SpecStore: where clean_db() is
    oplog,         \* SpecStore: what completed on the store since the last commit
    pools,         \* SpecPool: every pool create_pool returned, with its close() calls
    pool_ref,      \* SpecPool: which of them deps.pg_pool refers to, 0 for None
    life,          \* SpecPool: where the caller of initialize() / cleanup() is
    user_preferences, \* SpecHistory: deps.user_preferences
    query_history, \* SpecHistory: deps.query_history
    added,         \* SpecHistory: every query add_to_history was given, in order
    fetched,       \* SpecRows: rows, what conn.fetch returned to a channel
    mapped,        \* SpecRows: what the channel returned to its caller
    row_pc         \* SpecRows: "fetched" before the mapping, the channel's name after it

rrf_vars == <<rrf_in, rrf_out, rrf_pc>>

deps_vars == <<settings, store, pg_pool, openai_client>>

search_vars == <<settings, store, pg_pool, openai_client, pc, call, h, sem, txt,
                 loop_blocked, outcome>>

db_vars == <<documents, chunks, ing, cleaner, oplog>>

life_vars == <<pools, pool_ref, life>>

session_vars == <<user_preferences, query_history, added>>

row_vars == <<fetched, mapped, row_pc>>

vars == <<rrf_in, rrf_out, rrf_pc, settings, store, pg_pool, openai_client, pc,
          call, h, sem, txt, loop_blocked, outcome, documents, chunks, ing,
          cleaner, oplog, pools, pool_ref, life, user_preferences,
          query_history, added, fetched, mapped, row_pc>>

\* ------------------------------------------------------------ SearchResult

\* class SearchResult: the two fields the ranking reads and writes.
SearchResult(id, sim) == [chunk_id |-> id, similarity |-> sim]

\* ------------------------------------------------- reciprocal_rank_fusion

\* rrf_score = 1.0 / (k + rank), in units of 1/Scale.
RRFScore_OneBased(k, rank) == Scale \div (k + rank + 1)

RRFScore(k, rank) == Scale \div (k + rank)

\* The dicts before the loops: rrf_scores and chunk_map are empty.  Python
\* dicts iterate in insertion order, kept here as the sequence "order".
EmptyAcc == [rrf_scores |-> <<>>, chunk_map |-> <<>>, order |-> <<>>]

AccInsert(acc, result, score) ==
    [rrf_scores |-> acc.rrf_scores @@ (result.chunk_id :> score),
     chunk_map  |-> acc.chunk_map @@ (result.chunk_id :> result),
     order      |-> Append(acc.order, result.chunk_id)]

\* Mutant: every occurrence is entered as a new item (no "if chunk_id in rrf_scores").
AccumulateResult_NoDedup(acc, result, rank, k) ==
    IF result.chunk_id \in DOMAIN acc.rrf_scores
    THEN [acc EXCEPT !.rrf_scores[result.chunk_id] = @ + RRFScore(k, rank),
                     !.order = Append(@, result.chunk_id)]
    ELSE AccInsert(acc, result, RRFScore(k, rank))

\* Mutant: "=" instead of "+=": a later list's contribution replaces the sum.
AccumulateResult_Overwrite(acc, result, rank, k) ==
    IF result.chunk_id \in DOMAIN acc.rrf_scores
    THEN [acc EXCEPT !.rrf_scores[result.chunk_id] = RRFScore(k, rank)]
    ELSE AccInsert(acc, result, RRFScore(k, rank))

\* The body of the inner loop for one (rank, result).
AccumulateResult(acc, result, rank, k) ==
    IF result.chunk_id \in DOMAIN acc.rrf_scores
    THEN [acc EXCEPT !.rrf_scores[result.chunk_id] = @ + RRFScore(k, rank)]
    ELSE AccInsert(acc, result, RRFScore(k, rank))

\* for rank, result in enumerate(results): rank is zero-based.
RECURSIVE AccumulateList(_, _, _, _)
AccumulateList(acc, results, rank, k) ==
    IF rank >= Len(results) THEN acc
    ELSE AccumulateList(AccumulateResult(acc, results[rank + 1], rank, k),
                        results, rank + 1, k)

\* for results in search_results_list
RECURSIVE AccumulateAll(_, _, _, _)
AccumulateAll(acc, lists, i, k) ==
    IF i > Len(lists) THEN acc
    ELSE AccumulateAll(AccumulateList(acc, lists[i], 0, k), lists, i + 1, k)

\* rrf_scores.items(): (chunk_id, score) pairs in insertion order.
Items(acc) == [i \in 1..Len(acc.order) |-> <<acc.order[i], acc.rrf_scores[acc.order[i]]>>]

\* Mutant: an item goes before the items of equal score (an unstable sort).
RECURSIVE InsertDesc_Unstable(_, _)
InsertDesc_Unstable(sorted, item) ==
    IF sorted = <<>> THEN <<item>>
    ELSE IF Head(sorted)[2] > item[2]
         THEN <<Head(sorted)>> \o InsertDesc_Unstable(Tail(sorted), item)
         ELSE <<item>> \o sorted

\* One step of the stable descending sort: the item goes after every item
\* whose score is greater than or equal to its own.
RECURSIVE InsertDesc(_, _)
InsertDesc(sorted, item) ==
    IF sorted = <<>> THEN <<item>>
    ELSE IF Head(sorted)[2] >= item[2]
         THEN <<Head(sorted)>> \o InsertDesc(Tail(sorted), item)
         ELSE <<item>> \o sorted

\* sorted(rrf_scores.items(), key=lambda x: x[1], reverse=True): Python's
\* sort is stable, and reverse=True keeps the order of equal keys.
RECURSIVE SortedDesc(_)
SortedDesc(items) ==
    IF items = <<>> THEN <<>>
    ELSE InsertDesc(SortedDesc(SubSeq(items, 1, Len(items) - 1)), items[Len(items)])

\* The final loop: each chunk re-tagged with its fused score.
MergedResults(sorted_chunks, chunk_map) ==
    [i \in 1..Len(sorted_chunks) |->
        SearchResult(chunk_map[sorted_chunks[i][1]].chunk_id, sorted_chunks[i][2])]

reciprocal_rank_fusion(search_results_list, k) ==
    LET acc == AccumulateAll(EmptyAcc, search_results_list, 1, k)
    IN  MergedResults(SortedDesc(Items(acc)), acc.chunk_map)

\* ------------------------------------------------- state of a search call

\* match_count (or text_weight) omitted by the caller: Python's None, kept
\* apart from every number a caller passes.
None == -1

Min(a, b) == IF a <= b THEN a ELSE b

\* results[:n]
Take(results, n) == SubSeq(results, 1, Min(n, Len(results)))

\* What a coroutine gave the code awaiting it: a list, or an exception.
NoCompletion == [kind |-> "none", value |-> <<>>]

Returned(results) == [kind |-> "list", value |-> results]

Raised == [kind |-> "exception", value |-> <<>>]

\* A channel coroutine that has not been called.
IdleTask ==
    [pc |-> "idle", arg |-> None, match_count |-> 0, limit |-> 0,
     conn |-> 0, acquires |-> 0, failed |-> "none", completion |-> NoCompletion]

\* A channel coroutine called with match_count = arg, before its first step.
ReadyTask(arg) == [IdleTask EXCEPT !.pc = "ready", !.arg = arg]

NoCall == [fn |-> "none", match_count |-> None, text_weight |-> None]

IdleHybrid ==
    [match_count |-> None, semantic_results |-> <<>>, text_results |-> <<>>,
     semantic_failed |-> "none", text_failed |-> "none", failed |-> "none"]

\* No ingestion and no open transaction.
IdleIngest ==
    [pc |-> "idle", document_id |-> 0, chunk_count |-> 0, embedded |-> 0,
     tx_documents |-> {}, tx_chunks |-> {}, written |-> 0, stage |-> "none",
     counts |-> <<>>]

\* Nothing completed on the store since the last commit: no TRUNCATE (first
\* and latest, by the rows they removed) and no search since (by the rows it
\* returned).
NoLog == [first |-> None, latest |-> None, search |-> None]

\* clean_db() has not been called.
IdleClean == [pc |-> "idle"]

\* No ingestion, no clean_db() and nothing logged.
PipelineAtRest ==
    /\ ing = IdleIngest
    /\ cleaner = IdleClean
    /\ oplog = NoLog

\* The caller of initialize() / cleanup() is between calls.
IdleLife ==
    [pc |-> "idle", last |-> "none", held |-> 0, settings_set |-> FALSE,
     close_raised |-> FALSE]

\* The pool create_pool returns: open, close() not yet called on it.
NewPool == [closed |-> FALSE, close_calls |-> 0]

\* No pool was created.
PoolsAtRest ==
    /\ pools = <<>>
    /\ pool_ref = 0
    /\ life = IdleLife

\* Preference keys and values, and queries, of a session.
PrefKeys == {"k1"}

PrefValues == {"v1", "v2"}

Queries == {"q1", "q2"}

\* The value of a key user_preferences does not hold.
NoPreference == "unset"

\* field(default_factory=dict), field(default_factory=list): a new
\* AgentDependencies has no preference and an empty history.
SessionAtRest ==
    /\ user_preferences = [key \in PrefKeys |-> NoPreference]
    /\ query_history = <<>>
    /\ added = <<>>

\* No rows were fetched for mapping.
RowsAtRest ==
    /\ fetched = <<>>
    /\ mapped = <<>>
    /\ row_pc = "unused"

\* The variables of the search calls, at rest: SpecRRF does not use them.
SearchAtRest ==
    /\ settings = [default_match_count |-> 1, max_match_count |-> 1,
                   embedding_provider |-> "openai"]
    /\ store = [semantic |-> <<>>, text |-> <<>>]
    /\ pg_pool = FALSE
    /\ openai_client = FALSE
    /\ pc = "idle"
    /\ call = NoCall
    /\ h = IdleHybrid
    /\ sem = IdleTask
    /\ txt = IdleTask
    /\ loop_blocked = FALSE
    /\ outcome = NoCompletion

\* ------------------------------------------------------------------ SpecRRF

\* Sequences over S of length at most n.
SeqsUpTo(S, n) == UNION {[1..m -> S] : m \in 0..n}

\* The per-channel similarity of the result at position pos of list l, under
\* one of two scoring profiles: 1 - distance, at most 1.0, and ts_rank_cd,
\* which has no upper bound.  Both decrease down the list, as ORDER BY has it.
InputSimilarity(profile, l, pos) ==
    IF profile = "cosine" THEN Scale - pos - l ELSE 2 * Scale - 3 * pos - l

WithSimilarity(profile, idLists) ==
    [l \in 1..Len(idLists) |->
        [p \in 1..Len(idLists[l]) |->
            SearchResult(idLists[l][p], InputSimilarity(profile, l, p))]]

InitRRF ==
    /\ SearchAtRest
    /\ documents = {} /\ chunks = {}
    /\ PipelineAtRest
    /\ PoolsAtRest
    /\ SessionAtRest
    /\ RowsAtRest
    /\ \E idLists \in SeqsUpTo(SeqsUpTo(ChunkIds, MaxLen), NumLists) :
       \E profile \in {"cosine", "tsrank"} :
           rrf_in = WithSimilarity(profile, idLists)
    /\ rrf_out = <<>>
    /\ rrf_pc = "call"

Fuse ==
    /\ rrf_pc = "call"
    /\ rrf_out' = reciprocal_rank_fusion(rrf_in, K_RRF)
    /\ rrf_pc' = "done"
    /\ UNCHANGED <<rrf_in, session_vars, row_vars, search_vars, db_vars, life_vars>>

NextRRF == Fuse

SpecRRF == InitRRF /\ [][NextRRF]_vars

\* ------------------------------------------------------------ the channels

\* Mutant: the default is applied but the maximum is not.
EffectiveMatchCount_NoClamp(arg, s) ==
    IF arg = None THEN s.default_match_count ELSE arg

\* "if match_count is None: match_count = default_match_count" and
\* "match_count = min(match_count, max_match_count)": the same two statements
\* open semantic_search, text_search and hybrid_search.
EffectiveMatchCount(arg, s) ==
    Min(IF arg = None THEN s.default_match_count ELSE arg, s.max_match_count)

\* Mutant: the handler lets the exception go.
ChannelExcept_Reraise(step) == Raised

\* "except Exception as e: ... return []" of semantic_search and text_search;
\* step is the statement that raised.
ChannelExcept(step) == Returned(<<>>)

\* The task after its except clause ran.
FailedTask(task, step) ==
    [task EXCEPT !.pc = "done", !.failed = step, !.completion = ChannelExcept(step)]

\* SELECT ... ORDER BY c.embedding <=> $1 LIMIT $2, each row mapped to a
\* SearchResult with similarity 1 - distance.
StoreSemanticQuery(limit) ==
    [i \in 1..Min(limit, Len(store.semantic)) |->
        SearchResult(store.semantic[i], InputSimilarity("cosine", 1, i))]

\* SELECT ... WHERE to_tsvector(...) @@ query ORDER BY similarity DESC LIMIT $2,
\* each row mapped to a SearchResult with similarity ts_rank_cd.
StoreTextQuery(limit) ==
    [i \in 1..Min(limit, Len(store.text)) |->
        SearchResult(store.text[i], InputSimilarity("tsrank", 2, i))]

\* The event loop runs one coroutine at a time, and none while its thread is
\* inside a synchronous call.
LoopFree == ~loop_blocked

\* asyncio.gather starts its coroutines in argument order: text_search takes
\* its first step after semantic_search has reached its first suspension.
SemCalled == pc \in {"semantic_search", "gather", "fallback"}

TxtCalled == pc \in {"text_search", "gather"}

\* semantic_search up to the embedding request: settings access, the clamp,
\* then get_embedding.  The Gemini client is called synchronously (no await):
\* the event loop's thread stays inside genai.embed_content until it returns.
\* The OpenAI path awaits initialize() first when the client is unset, which
\* awaits create_pool when the pool is unset.
SemStart ==
    /\ SemCalled /\ LoopFree /\ sem.pc = "ready"
    /\ \E ok \in BOOLEAN :
        IF ~ok
        THEN /\ sem' = FailedTask(sem, "settings")
             /\ UNCHANGED <<openai_client, loop_blocked>>
        ELSE LET mc == EffectiveMatchCount(sem.arg, settings) IN
             IF settings.embedding_provider = "gemini"
             THEN /\ sem' = [sem EXCEPT !.pc = "embed", !.match_count = mc]
                  /\ loop_blocked' = TRUE
                  /\ UNCHANGED openai_client
             ELSE IF openai_client \/ pg_pool
             THEN /\ sem' = [sem EXCEPT !.pc = "embed", !.match_count = mc]
                  /\ openai_client' = TRUE
                  /\ UNCHANGED loop_blocked
             ELSE /\ sem' = [sem EXCEPT !.pc = "init_client", !.match_count = mc]
                  /\ UNCHANGED <<openai_client, loop_blocked>>
    /\ UNCHANGED <<rrf_vars, session_vars, row_vars, db_vars, life_vars, settings, store, pg_pool, pc, call, h, txt, outcome>>

\* create_pool, awaited by get_embedding's initialize(), completes: the pool
\* and the OpenAI client are set and the embedding request is sent.
SemClientInitDone ==
    /\ LoopFree /\ sem.pc = "init_client"
    /\ \E ok \in BOOLEAN :
        IF ok
        THEN /\ pools' = Append(pools, NewPool)
             /\ pool_ref' = Len(pools) + 1
             /\ pg_pool' = TRUE
             /\ openai_client' = TRUE
             /\ sem' = [sem EXCEPT !.pc = "embed"]
        ELSE /\ sem' = FailedTask(sem, "initialize")
             /\ UNCHANGED <<pools, pool_ref, pg_pool, openai_client>>
    /\ UNCHANGED <<rrf_vars, session_vars, row_vars, db_vars, life, settings, store, pc, call, h, txt, loop_blocked, outcome>>

\* The embedding request completes.  With the embedding in hand the coroutine
\* goes on to "if not deps.pg_pool: await deps.initialize()" and to acquire().
SemEmbedDone ==
    /\ sem.pc = "embed"
    /\ loop_blocked' = FALSE
    /\ \E ok \in BOOLEAN :
        IF ok
        THEN sem' = [sem EXCEPT !.pc = IF pg_pool THEN "acquire" ELSE "initialize"]
        ELSE sem' = FailedTask(sem, "embedding")
    /\ UNCHANGED <<rrf_vars, session_vars, row_vars, db_vars, life_vars, deps_vars, pc, call, h, txt, outcome>>

\* The lazy initialize() of semantic_search completes.
SemInitDone ==
    /\ LoopFree /\ sem.pc = "initialize"
    /\ \E ok \in BOOLEAN :
        IF ok
        THEN /\ pools' = Append(pools, NewPool)
             /\ pool_ref' = Len(pools) + 1
             /\ pg_pool' = TRUE
             /\ openai_client' = (openai_client \/ settings.embedding_provider # "gemini")
             /\ sem' = [sem EXCEPT !.pc = "acquire"]
        ELSE /\ sem' = FailedTask(sem, "initialize")
             /\ UNCHANGED <<pools, pool_ref, pg_pool, openai_client>>
    /\ UNCHANGED <<rrf_vars, session_vars, row_vars, db_vars, life, settings, store, pc, call, h, txt, loop_blocked, outcome>>

\* Mutant: the connection goes back to the pool only when the query succeeded.
ExitConnectionScope_LeakOnError(task, end) ==
    IF end = "query" THEN task ELSE [task EXCEPT !.conn = 0]

\* "async with deps.pg_pool.acquire() as conn" is entered: the coroutine
\* holds one more connection of the pool.
EnterConnectionScope(task) ==
    [task EXCEPT !.conn = @ + 1, !.acquires = @ + 1]

\* The "async with" block is left, by the end of conn.fetch or by its
\* exception: the connection is released.
ExitConnectionScope(task, end) == [task EXCEPT !.conn = 0]

\* conn.fetch(sql, embedding_str, match_count): the query's LIMIT $2.
SemanticRowLimit(match_count) == match_count

\* pool.acquire() completes: the query is sent with LIMIT match_count.
SemAcquired ==
    /\ LoopFree /\ sem.pc = "acquire"
    /\ \E ok \in BOOLEAN :
        IF ok
        THEN sem' = [EnterConnectionScope(sem) EXCEPT !.pc = "fetch",
                        !.limit = SemanticRowLimit(sem.match_count)]
        ELSE sem' = FailedTask(sem, "acquire")
    /\ UNCHANGED <<rrf_vars, session_vars, row_vars, db_vars, life_vars, deps_vars, pc, call, h, txt, loop_blocked, outcome>>

\* conn.fetch completes, the connection is released, the rows are mapped.
SemFetched ==
    /\ LoopFree /\ sem.pc = "fetch"
    /\ \E end \in {"ok", "query", "mapping"} :
        IF end = "ok"
        THEN sem' = [ExitConnectionScope(sem, end) EXCEPT !.pc = "done",
                        !.completion = Returned(StoreSemanticQuery(sem.limit))]
        ELSE sem' = FailedTask(ExitConnectionScope(sem, end), end)
    /\ UNCHANGED <<rrf_vars, session_vars, row_vars, db_vars, life_vars, deps_vars, pc, call, h, txt, loop_blocked, outcome>>

\* text_search up to its first await: settings access, the clamp, then the
\* lazy initialize() or acquire().
TxtStart ==
    /\ TxtCalled /\ LoopFree /\ txt.pc = "ready"
    /\ pc = "gather" => sem.pc # "ready"
    /\ \E ok \in BOOLEAN :
        IF ok
        THEN txt' = [txt EXCEPT !.pc = IF pg_pool THEN "acquire" ELSE "initialize",
                        !.match_count = EffectiveMatchCount(txt.arg, settings)]
        ELSE txt' = FailedTask(txt, "settings")
    /\ UNCHANGED <<rrf_vars, session_vars, row_vars, db_vars, life_vars, deps_vars, pc, call, h, sem, loop_blocked, outcome>>

\* The lazy initialize() of text_search completes.
TxtInitDone ==
    /\ LoopFree /\ txt.pc = "initialize"
    /\ \E ok \in BOOLEAN :
        IF ok
        THEN /\ pools' = Append(pools, NewPool)
             /\ pool_ref' = Len(pools) + 1
             /\ pg_pool' = TRUE
             /\ openai_client' = (openai_client \/ settings.embedding_provider # "gemini")
             /\ txt' = [txt EXCEPT !.pc = "acquire"]
        ELSE /\ txt' = FailedTask(txt, "initialize")
             /\ UNCHANGED <<pools, pool_ref, pg_pool, openai_client>>
    /\ UNCHANGED <<rrf_vars, session_vars, row_vars, db_vars, life, settings, store, pc, call, h, sem, loop_blocked, outcome>>

\* Mutant: the full-text query takes match_count rows.
TextRowLimit_NoDoubling(match_count) == match_count

\* conn.fetch(sql, query, match_count * 2): the query's LIMIT $2.
TextRowLimit(match_count) == match_count * 2

\* pool.acquire() completes: the query is sent with LIMIT match_count * 2.
TxtAcquired ==
    /\ LoopFree /\ txt.pc = "acquire"
    /\ \E ok \in BOOLEAN :
        IF ok
        THEN txt' = [EnterConnectionScope(txt) EXCEPT !.pc = "fetch",
                        !.limit = TextRowLimit(txt.match_count)]
        ELSE txt' = FailedTask(txt, "acquire")
    /\ UNCHANGED <<rrf_vars, session_vars, row_vars, db_vars, life_vars, deps_vars, pc, call, h, sem, loop_blocked, outcome>>

\* conn.fetch completes, the connection is released, the rows are mapped.
TxtFetched ==
    /\ LoopFree /\ txt.pc = "fetch"
    /\ \E end \in {"ok", "query", "mapping"} :
        IF end = "ok"
        THEN txt' = [ExitConnectionScope(txt, end) EXCEPT !.pc = "done",
                        !.completion = Returned(StoreTextQuery(txt.limit))]
        ELSE txt' = FailedTask(ExitConnectionScope(txt, end), end)
    /\ UNCHANGED <<rrf_vars, session_vars, row_vars, db_vars, life_vars, deps_vars, pc, call, h, sem, loop_blocked, outcome>>

\* -------------------------------------------------------- the tool calls

\* The match_count arguments callers pass: omitted, or 0..MaxK.
MatchCounts == {None} \cup (0..MaxK)

\* The text_weight arguments callers pass: omitted, or a weight in tenths
\* (0.3 is settings.default_text_weight).
TextWeights == {None, 3}

\* deps.initialize() at start-up: creates the pool, then the OpenAI client
\* unless the provider is Gemini.  A failing create_pool raises to the caller.
Initialize ==
    /\ pc = "idle" /\ ~pg_pool
    /\ \E ok \in BOOLEAN :
        IF ok
        THEN /\ pools' = Append(pools, NewPool)
             /\ pool_ref' = Len(pools) + 1
             /\ pg_pool' = TRUE
             /\ openai_client' = (openai_client \/ settings.embedding_provider # "gemini")
        ELSE UNCHANGED <<pools, pool_ref, pg_pool, openai_client>>
    /\ UNCHANGED <<rrf_vars, session_vars, row_vars, db_vars, life, settings, store, pc, call, h, sem, txt, loop_blocked, outcome>>

\* The agent calls semantic_search(ctx, query, match_count).
CallSemantic ==
    /\ pc = "idle"
    /\ \E k \in MatchCounts :
        /\ call' = [fn |-> "semantic_search", match_count |-> k, text_weight |-> None]
        /\ sem' = ReadyTask(k)
    /\ pc' = "semantic_search"
    /\ UNCHANGED <<rrf_vars, session_vars, row_vars, db_vars, life_vars, deps_vars, h, txt, loop_blocked, outcome>>

\* The agent calls text_search(ctx, query, match_count).
CallText ==
    /\ pc = "idle"
    /\ \E k \in MatchCounts :
        /\ call' = [fn |-> "text_search", match_count |-> k, text_weight |-> None]
        /\ txt' = ReadyTask(k)
    /\ pc' = "text_search"
    /\ UNCHANGED <<rrf_vars, session_vars, row_vars, db_vars, life_vars, deps_vars, h, sem, loop_blocked, outcome>>

\* A directly called channel returns to the agent.
DirectReturn ==
    /\ \/ pc = "semantic_search" /\ sem.pc = "done" /\ outcome' = sem.completion
       \/ pc = "text_search" /\ txt.pc = "done" /\ outcome' = txt.completion
    /\ pc' = "returned"
    /\ UNCHANGED <<rrf_vars, session_vars, row_vars, db_vars, life_vars, deps_vars, call, h, sem, txt, loop_blocked>>

\* Mutant: no handler around the body of hybrid_search.
HybridExcept_Propagate == "raise"

\* "except Exception as e:" of hybrid_search: the handler runs the fallback.
HybridExcept == "fallback"

\* The handler of hybrid_search entered with the locals as they stand:
\* "return await semantic_search(ctx, query, match_count)"; step is the
\* statement that raised.
EnterHybridExcept(locals, match_count, step) ==
    /\ h' = [locals EXCEPT !.failed = step, !.match_count = match_count]
    /\ IF HybridExcept = "fallback"
       THEN /\ pc' = "fallback"
            /\ sem' = ReadyTask(match_count)
            /\ UNCHANGED outcome
       ELSE /\ pc' = "returned"
            /\ outcome' = Raised
            /\ UNCHANGED sem

\* Mutant: the channels are asked for match_count candidates.
FetchCount_NoDoubling(match_count) == match_count

\* fetch_count = match_count * 2
FetchCount(match_count) == match_count * 2

\* The agent calls hybrid_search(ctx, query, match_count, text_weight): the
\* coroutine runs to "await asyncio.gather(...)".  A failing settings access
\* enters the handler with match_count still as passed.
CallHybrid ==
    /\ pc = "idle"
    /\ \E k \in MatchCounts, w \in TextWeights, ok \in BOOLEAN :
        /\ call' = [fn |-> "hybrid_search", match_count |-> k, text_weight |-> w]
        /\ IF ok
           THEN LET match_count == EffectiveMatchCount(k, settings)
                    fetch_count == FetchCount(match_count)
                IN  /\ h' = [IdleHybrid EXCEPT !.match_count = match_count]
                    /\ sem' = ReadyTask(fetch_count)
                    /\ txt' = ReadyTask(fetch_count)
                    /\ pc' = "gather"
                    /\ UNCHANGED outcome
           ELSE /\ EnterHybridExcept(IdleHybrid, k, "settings")
                /\ UNCHANGED txt
    /\ UNCHANGED <<rrf_vars, session_vars, row_vars, db_vars, life_vars, deps_vars, loop_blocked>>

\* "if isinstance(semantic_results, Exception): semantic_results = []", the
\* same for text_results: what gather(return_exceptions=True) gave, as a list.
GatherResult(completion) ==
    IF completion.kind = "exception" THEN <<>> ELSE completion.value

\* Mutant: the fused list is returned whole.
TopResults_NoSlice(merged_results, match_count) == merged_results

\* merged_results[:match_count]
TopResults(merged_results, match_count) == Take(merged_results, match_count)

\* Mutant: the gather is a race, over as soon as one coroutine is done.
GatherDone_FirstCompleted(sem_task, txt_task) ==
    sem_task.pc = "done" \/ txt_task.pc = "done"

\* "await asyncio.gather(semantic_search(...), text_search(...),
\* return_exceptions=True)" resumes its caller when both coroutines are done,
\* each with a list or an exception; no coroutine is cancelled.
GatherDone(sem_task, txt_task) ==
    sem_task.pc = "done" /\ txt_task.pc = "done"

\* Mutant: no early return, the fusion runs on two empty lists as well.
BothEmpty_NotChecked(semantic_results, text_results) == FALSE

\* "if not semantic_results and not text_results: return []"
BothEmpty(semantic_results, text_results) ==
    semantic_results = <<>> /\ text_results = <<>>

\* Mutant: the lexical list is handed to the fusion first.
FuseChannels_TextFirst(semantic_results, text_results) ==
    reciprocal_rank_fusion(<<text_results, semantic_results>>, K_RRF)

\* Mutant: a text_weight that was passed counts the lexical list twice.
FuseChannels_Weighted(semantic_results, text_results) ==
    IF call.text_weight = None
    THEN reciprocal_rank_fusion(<<semantic_results, text_results>>, K_RRF)
    ELSE reciprocal_rank_fusion(<<semantic_results, text_results, text_results>>, K_RRF)

\* reciprocal_rank_fusion([semantic_results, text_results], k=60)
FuseChannels(semantic_results, text_results) ==
    reciprocal_rank_fusion(<<semantic_results, text_results>>, K_RRF)

\* Both coroutines of the gather are done: the coroutine resumes, returns []
\* when both lists are empty, and otherwise fuses and returns the top
\* match_count.  A raising fusion enters the handler with the clamped
\* match_count.
HybridGathered ==
    /\ pc = "gather" /\ LoopFree /\ GatherDone(sem, txt)
    /\ LET semantic_results == GatherResult(sem.completion)
           text_results == GatherResult(txt.completion)
           joined == [h EXCEPT !.semantic_results = semantic_results,
                               !.text_results = text_results,
                               !.semantic_failed = sem.failed,
                               !.text_failed = txt.failed]
       IN  IF BothEmpty(semantic_results, text_results)
           THEN /\ outcome' = Returned(<<>>)
                /\ h' = joined
                /\ pc' = "returned"
                /\ UNCHANGED sem
           ELSE \E fusion_ok \in BOOLEAN :
                IF fusion_ok
                THEN /\ outcome' = Returned(TopResults(
                             FuseChannels(semantic_results, text_results),
                             h.match_count))
                     /\ h' = joined
                     /\ pc' = "returned"
                     /\ UNCHANGED sem
                ELSE EnterHybridExcept(joined, h.match_count, "fusion")
    /\ UNCHANGED <<rrf_vars, session_vars, row_vars, db_vars, life_vars, deps_vars, call, txt, loop_blocked>>

\* Mutant: the handler returns [] without running semantic_search's result.
FallbackResult_AlwaysEmpty(completion) == Returned(<<>>)

\* "try: return await semantic_search(...) except: return []"
FallbackResult(completion) ==
    IF completion.kind = "exception" THEN Returned(<<>>) ELSE completion

\* The fallback's semantic_search is done: hybrid_search returns its list.
HybridFallbackDone ==
    /\ pc = "fallback" /\ LoopFree /\ sem.pc = "done"
    /\ outcome' = FallbackResult(sem.completion)
    /\ pc' = "returned"
    /\ UNCHANGED <<rrf_vars, session_vars, row_vars, db_vars, life_vars, deps_vars, call, h, sem, txt, loop_blocked>>

\* The agent has the result; the dependencies stay as the call left them.
NextCall ==
    /\ pc = "returned"
    /\ pc' = "idle"
    /\ call' = NoCall
    /\ h' = IdleHybrid
    /\ sem' = IdleTask
    /\ txt' = IdleTask
    /\ outcome' = NoCompletion
    /\ UNCHANGED <<rrf_vars, session_vars, row_vars, db_vars, life_vars, deps_vars, loop_blocked>>

\* ---------------------------------------------------------------- Spec

\* A row of the chunks table: its id, the document it belongs to, its index
\* in the document.
ChunkRow(id, document_id, index) ==
    [id |-> id, document_id |-> document_id, index |-> index]

\* Sequences over S without repetition.
InjectiveSeqs(S) ==
    {q \in SeqsUpTo(S, Cardinality(S)) : \A i, j \in DOMAIN q : q[i] = q[j] => i = j}

\* The nearest-neighbour order of the chunks table, which has no WHERE clause
\* and so ranks every chunk: chunk ids are opaque, so they are named by it.
SemanticOrders == {<<>>, <<"c1">>, <<"c1", "c2">>, <<"c1", "c2", "c3">>}

\* After construction of AgentDependencies, with settings in place: no pool,
\* no client.  The store holds any chunks; the full-text query matches any of
\* them in any order.
Init ==
    /\ rrf_in = <<>> /\ rrf_out = <<>> /\ rrf_pc = "unused"
    /\ \E d \in 1..MaxSetting, m \in 1..MaxSetting, p \in {"openai", "gemini"} :
        settings = [default_match_count |-> d, max_match_count |-> m,
                    embedding_provider |-> p]
    /\ \E so \in SemanticOrders :
       \E to \in InjectiveSeqs({so[i] : i \in DOMAIN so}) :
        /\ store = [semantic |-> so, text |-> to]
        /\ documents = IF so = <<>> THEN {} ELSE {1}
        /\ chunks = {ChunkRow(so[i], 1, i - 1) : i \in DOMAIN so}
    /\ PipelineAtRest
    /\ PoolsAtRest
    /\ SessionAtRest
    /\ RowsAtRest
    /\ pg_pool = FALSE
    /\ openai_client = FALSE
    /\ pc = "idle"
    /\ call = NoCall
    /\ h = IdleHybrid
    /\ sem = IdleTask
    /\ txt = IdleTask
    /\ loop_blocked = FALSE
    /\ outcome = NoCompletion

Next ==
    \/ Initialize
    \/ CallSemantic
    \/ CallText
    \/ CallHybrid
    \/ SemStart
    \/ SemClientInitDone
    \/ SemEmbedDone
    \/ SemInitDone
    \/ SemAcquired
    \/ SemFetched
    \/ TxtStart
    \/ TxtInitDone
    \/ TxtAcquired
    \/ TxtFetched
    \/ HybridGathered
    \/ HybridFallbackDone
    \/ DirectReturn
    \/ NextCall

Spec == Init /\ [][Next]_vars

\* The steps the event loop and the services that answer guarantee: every
\* step of Next but the completion of the semantic channel's embedding
\* request and of its store query.  Neither get_embedding nor conn.fetch is
\* given a timeout, and hybrid_search awaits its gather without one.
AnsweredStep ==
    \/ Initialize
    \/ CallSemantic
    \/ CallText
    \/ CallHybrid
    \/ SemStart
    \/ SemClientInitDone
    \/ SemInitDone
    \/ SemAcquired
    \/ TxtStart
    \/ TxtInitDone
    \/ TxtAcquired
    \/ TxtFetched
    \/ HybridGathered
    \/ HybridFallbackDone
    \/ DirectReturn
    \/ NextCall

\* The searches with a degraded semantic channel: whatever is ready runs and
\* whatever the lexical channel awaits is answered, while the embedding
\* service and the semantic store query may never answer.
SpecDegraded == Init /\ [][Next]_vars /\ WF_vars(AnsweredStep)

\* --------------------------------------------------------------- SpecStore
\* The write path against the two tables: the ingestion pipeline, clean_db()
\* and a semantic_search reading what is committed.

\* Ingestions started in one behaviour.
MaxDocs == 2

\* Most chunks the chunker makes of one document.
MaxChunks == 2

\* Chunks embedded by one call to the embedding provider.
BatchSize == 1

\* The id the store gives a chunk row.
NewChunkId(document_id, index) ==
    "c" \o ToString(document_id) \o "." \o ToString(index)

\* FROM chunks c JOIN documents d ON c.document_id = d.id
JoinedChunks(docs, rows) == {c \in rows : c.document_id \in docs}

RankKey(c) == c.document_id * (MaxChunks + 1) + c.index

\* The ids of the rows in the order the query's ORDER BY gives them.
RECURSIVE Ranked(_)
Ranked(rows) ==
    IF rows = {} THEN <<>>
    ELSE LET first == CHOOSE c \in rows : \A o \in rows : RankKey(c) <= RankKey(o)
         IN  <<first.id>> \o Ranked(rows \ {first})

\* The two tables as the search queries rank them: every joined chunk, the
\* full-text query matching each of them.
StoreView(docs, rows) ==
    [semantic |-> Ranked(JoinedChunks(docs, rows)),
     text |-> Ranked(JoinedChunks(docs, rows))]

\* The log after a TRUNCATE that removed so many rows.
LoggedTruncate(log, rows) ==
    IF log.first = None
    THEN [first |-> rows, latest |-> None, search |-> None]
    ELSE [log EXCEPT !.latest = rows, !.search = None]

\* Mutant: every INSERT is its own transaction, visible at once.
WriteRow_Autocommit(table, tx, row) == [table |-> table \cup {row}, tx |-> tx]

\* An INSERT inside the open transaction: the row is pending, the committed
\* table is as it was.
WriteRow(table, tx, row) == [table |-> table, tx |-> tx \cup {row}]

\* The transaction is rolled back and ingest() raises IngestionFailed{stage}.
IngestionFailed(stage) ==
    [ing EXCEPT !.pc = "failed", !.stage = stage,
                !.tx_documents = {}, !.tx_chunks = {}]

\* ingest(title, source, content, metadata) is called and the chunker cuts
\* the content: an empty document gives zero chunks.  The store will give
\* the document the next id.
IngestStart ==
    /\ ing.pc \in {"idle", "done", "failed"}
    /\ Len(ing.counts) < MaxDocs
    /\ \E n \in 0..MaxChunks, ok \in BOOLEAN :
        LET started == [IdleIngest EXCEPT !.document_id = Len(ing.counts) + 1,
                                          !.chunk_count = n,
                                          !.counts = Append(ing.counts, n)]
        IN  IF ok
            THEN ing' = [started EXCEPT !.pc = IF n = 0 THEN "persist" ELSE "embed"]
            ELSE ing' = [started EXCEPT !.pc = "failed", !.stage = "chunking"]
    /\ UNCHANGED <<rrf_vars, session_vars, row_vars, search_vars, life_vars, documents, chunks, cleaner, oplog>>

\* One batch of chunks comes back from the embedding provider, or the call
\* fails and with it the ingestion.
IngestEmbedBatch ==
    /\ ing.pc = "embed"
    /\ \E ok \in BOOLEAN :
        IF ok
        THEN LET embedded == Min(ing.embedded + BatchSize, ing.chunk_count)
             IN  ing' = [ing EXCEPT !.embedded = embedded,
                             !.pc = IF embedded = ing.chunk_count
                                    THEN "persist" ELSE "embed"]
        ELSE ing' = IngestionFailed("embedding")
    /\ UNCHANGED <<rrf_vars, session_vars, row_vars, search_vars, life_vars, documents, chunks, cleaner, oplog>>

\* The transaction opens and the document row is inserted.
IngestInsertDocument ==
    /\ ing.pc = "persist"
    /\ \E ok \in BOOLEAN :
        IF ok
        THEN LET w == WriteRow(documents, ing.tx_documents, ing.document_id)
             IN  /\ documents' = w.table
                 /\ ing' = [ing EXCEPT !.pc = "insert_chunks", !.tx_documents = w.tx,
                                       !.written = 1]
        ELSE /\ ing' = IngestionFailed("persistence")
             /\ UNCHANGED documents
    /\ store' = StoreView(documents', chunks)
    /\ UNCHANGED <<rrf_vars, session_vars, row_vars, life_vars, settings, pg_pool, openai_client, pc, call,
                   h, sem, txt, loop_blocked, outcome, chunks, cleaner, oplog>>

\* The next chunk row is inserted.
IngestInsertChunk ==
    /\ ing.pc = "insert_chunks"
    /\ ing.written - 1 < ing.chunk_count
    /\ \E ok \in BOOLEAN :
        IF ok
        THEN LET index == ing.written - 1
                 row == ChunkRow(NewChunkId(ing.document_id, index),
                                 ing.document_id, index)
                 w == WriteRow(chunks, ing.tx_chunks, row)
             IN  /\ chunks' = w.table
                 /\ ing' = [ing EXCEPT !.tx_chunks = w.tx, !.written = @ + 1]
        ELSE /\ ing' = IngestionFailed("persistence")
             /\ UNCHANGED chunks
    /\ store' = StoreView(documents, chunks')
    /\ UNCHANGED <<rrf_vars, session_vars, row_vars, life_vars, settings, pg_pool, openai_client, pc, call,
                   h, sem, txt, loop_blocked, outcome, documents, cleaner, oplog>>

\* Every row is inserted: the transaction commits and its rows become
\* visible together, or the commit fails and none does.
IngestCommit ==
    /\ ing.pc = "insert_chunks"
    /\ ing.written - 1 = ing.chunk_count
    /\ \E ok \in BOOLEAN :
        IF ok
        THEN /\ documents' = documents \cup ing.tx_documents
             /\ chunks' = chunks \cup ing.tx_chunks
             /\ ing' = [ing EXCEPT !.pc = "done", !.tx_documents = {}, !.tx_chunks = {}]
             /\ oplog' = NoLog
        ELSE /\ ing' = IngestionFailed("persistence")
             /\ UNCHANGED <<documents, chunks, oplog>>
    /\ store' = StoreView(documents', chunks')
    /\ UNCHANGED <<rrf_vars, session_vars, row_vars, life_vars, settings, pg_pool, openai_client, pc, call,
                   h, sem, txt, loop_blocked, outcome, cleaner>>

\* Mutant: the documents table alone is emptied.
TruncateDocuments_NoCascade(docs, rows) == [documents |-> {}, chunks |-> rows]

\* TRUNCATE TABLE documents CASCADE: the table and every table with a
\* foreign key to it, chunks, are emptied in one statement.
TruncateDocuments(docs, rows) == [documents |-> {}, chunks |-> {}]

\* clean_db() is called: load_settings(), then asyncpg.connect is awaited.
CleanCall ==
    /\ cleaner.pc \in {"idle", "returned", "raised"}
    /\ \E ok \in BOOLEAN :
        cleaner' = [pc |-> IF ok THEN "connect" ELSE "raised"]
    /\ UNCHANGED <<rrf_vars, session_vars, row_vars, search_vars, life_vars, documents, chunks, ing, oplog>>

\* asyncpg.connect completes: the TRUNCATE is sent.
CleanConnected ==
    /\ cleaner.pc = "connect"
    /\ \E ok \in BOOLEAN :
        cleaner' = [pc |-> IF ok THEN "truncate" ELSE "raised"]
    /\ UNCHANGED <<rrf_vars, session_vars, row_vars, search_vars, life_vars, documents, chunks, ing, oplog>>

\* conn.execute("TRUNCATE TABLE documents CASCADE;") completes.  TRUNCATE
\* takes an exclusive lock on both tables, so it waits for an open
\* transaction that wrote to them.
CleanTruncated ==
    /\ cleaner.pc = "truncate"
    /\ ing.pc # "insert_chunks"
    /\ \E ok \in BOOLEAN :
        IF ok
        THEN LET t == TruncateDocuments(documents, chunks)
             IN  /\ documents' = t.documents
                 /\ chunks' = t.chunks
                 /\ oplog' = LoggedTruncate(oplog,
                                Cardinality(documents) + Cardinality(chunks))
                 /\ cleaner' = [pc |-> "close"]
        ELSE /\ cleaner' = [pc |-> "raised"]
             /\ UNCHANGED <<documents, chunks, oplog>>
    /\ store' = StoreView(documents', chunks')
    /\ UNCHANGED <<rrf_vars, session_vars, row_vars, life_vars, settings, pg_pool, openai_client, pc, call,
                   h, sem, txt, loop_blocked, outcome, ing>>

\* conn.close() completes and clean_db() returns; an exception is logged and
\* raised again.
CleanClosed ==
    /\ cleaner.pc = "close"
    /\ \E ok \in BOOLEAN :
        cleaner' = [pc |-> IF ok THEN "returned" ELSE "raised"]
    /\ UNCHANGED <<rrf_vars, session_vars, row_vars, search_vars, life_vars, documents, chunks, ing, oplog>>

\* What semantic_search(ctx, query, k) gives against the store as it is:
\* the rows of its query, or [] when a step of it raised.
SemanticSearchOutcome(k, end) ==
    IF end = "ok"
    THEN Returned(StoreSemanticQuery(
             SemanticRowLimit(EffectiveMatchCount(k, settings))))
    ELSE ChannelExcept(end)

\* The match_count a reader of the store passes: omitted, or one result.
ReaderCounts == {None, 1}

\* A semantic_search call, start to return, reading the committed rows.
StoreSemanticSearch ==
    /\ \E k \in ReaderCounts, end \in {"ok", "query"} :
        /\ call' = [fn |-> "semantic_search", match_count |-> k, text_weight |-> None]
        /\ outcome' = SemanticSearchOutcome(k, end)
    /\ oplog' = [oplog EXCEPT !.search = Len(outcome'.value)]
    /\ UNCHANGED <<rrf_vars, session_vars, row_vars, life_vars, deps_vars, pc, h, sem, txt, loop_blocked,
                   documents, chunks, ing, cleaner>>

\* An empty store after init_db, nothing running.
InitStore ==
    /\ rrf_in = <<>> /\ rrf_out = <<>> /\ rrf_pc = "unused"
    /\ SearchAtRest
    /\ documents = {} /\ chunks = {}
    /\ PipelineAtRest
    /\ PoolsAtRest
    /\ SessionAtRest
    /\ RowsAtRest

NextStore ==
    \/ IngestStart
    \/ IngestEmbedBatch
    \/ IngestInsertDocument
    \/ IngestInsertChunk
    \/ IngestCommit
    \/ CleanCall
    \/ CleanConnected
    \/ CleanTruncated
    \/ CleanClosed
    \/ StoreSemanticSearch

SpecStore == InitStore /\ [][NextStore]_vars

\* ---------------------------------------------------------------- SpecPool
\* One caller awaits deps.initialize() and deps.cleanup() one after the
\* other, in any order, with create_pool, the client constructor and
\* pool.close() failing at will.

\* Pools create_pool returns in one behaviour.
MaxPools == 3

\* The end of initialize(): genai.configure for Gemini, otherwise the OpenAI
\* client is constructed unless it is set.  The constructor may raise.
ProviderInitialized(had_client, client_ok) ==
    IF settings.embedding_provider = "gemini" THEN [client |-> had_client, ok |-> TRUE]
    ELSE IF had_client THEN [client |-> TRUE, ok |-> TRUE]
    ELSE [client |-> client_ok, ok |-> client_ok]

\* How a call that ran to its end is recorded.
CallEnded(name, ok) == name \o (IF ok THEN " returned" ELSE " raised")

\* initialize() is called: settings are loaded when unset (load_settings may
\* raise), then create_pool is awaited when pg_pool is unset; with a pool in
\* place the call goes straight to the embedding provider and ends.
LifeInitialize ==
    /\ life.pc = "idle"
    /\ \E settings_ok \in BOOLEAN, client_ok \in BOOLEAN :
        IF ~life.settings_set /\ ~settings_ok
        THEN /\ life' = [life EXCEPT !.last = CallEnded("initialize", FALSE)]
             /\ UNCHANGED openai_client
        ELSE IF ~pg_pool
        THEN /\ Len(pools) < MaxPools
             /\ life' = [life EXCEPT !.pc = "create_pool", !.settings_set = TRUE]
             /\ UNCHANGED openai_client
        ELSE LET p == ProviderInitialized(openai_client, client_ok)
             IN  /\ openai_client' = p.client
                 /\ life' = [life EXCEPT !.settings_set = TRUE,
                                         !.last = CallEnded("initialize", p.ok)]
    /\ UNCHANGED <<rrf_vars, session_vars, row_vars, db_vars, settings, store, pg_pool, pc, call, h, sem, txt,
                   loop_blocked, outcome, pools, pool_ref>>

\* create_pool completes: pg_pool is assigned and initialize() goes on to
\* the embedding provider, or the exception is logged and raised again.
LifeCreatePoolDone ==
    /\ life.pc = "create_pool"
    /\ \E ok \in BOOLEAN, client_ok \in BOOLEAN :
        IF ok
        THEN LET p == ProviderInitialized(openai_client, client_ok)
             IN  /\ pools' = Append(pools, NewPool)
                 /\ pool_ref' = Len(pools) + 1
                 /\ pg_pool' = TRUE
                 /\ openai_client' = p.client
                 /\ life' = [life EXCEPT !.pc = "idle",
                                         !.last = CallEnded("initialize", p.ok)]
        ELSE /\ life' = [life EXCEPT !.pc = "idle",
                                     !.last = CallEnded("initialize", FALSE)]
             /\ UNCHANGED <<pools, pool_ref, pg_pool, openai_client>>
    /\ UNCHANGED <<rrf_vars, session_vars, row_vars, db_vars, settings, store, pc, call, h, sem, txt,
                   loop_blocked, outcome>>

\* cleanup() is called: with a pool, pool.close() is called and awaited;
\* without one the call returns having done nothing.
LifeCleanup ==
    /\ life.pc = "idle"
    /\ IF pg_pool
       THEN /\ pools' = [pools EXCEPT ![pool_ref].close_calls = @ + 1]
            /\ life' = [life EXCEPT !.pc = "close", !.held = pool_ref]
       ELSE /\ life' = [life EXCEPT !.last = CallEnded("cleanup", TRUE), !.held = 0]
            /\ UNCHANGED pools
    /\ UNCHANGED <<rrf_vars, session_vars, row_vars, db_vars, search_vars, pool_ref>>

\* pool.close() completes.  asyncpg marks the pool closed whether close()
\* returns or raises, and a close() of a closed pool returns at once.  When
\* it returns, "self.pg_pool = None" runs; when it raises, cleanup() raises
\* with pg_pool as it was.
LifeCloseDone ==
    /\ life.pc = "close"
    /\ \E ok \in BOOLEAN :
        /\ pools[pool_ref].closed => ok
        /\ pools' = [pools EXCEPT ![pool_ref].closed = TRUE]
        /\ IF ok
           THEN /\ pg_pool' = FALSE
                /\ pool_ref' = 0
                /\ life' = [life EXCEPT !.pc = "idle",
                                        !.last = CallEnded("cleanup", TRUE)]
           ELSE /\ life' = [life EXCEPT !.pc = "idle", !.close_raised = TRUE,
                                        !.last = CallEnded("cleanup", FALSE)]
                /\ UNCHANGED <<pg_pool, pool_ref>>
    /\ UNCHANGED <<rrf_vars, session_vars, row_vars, db_vars, settings, store, openai_client, pc, call, h,
                   sem, txt, loop_blocked, outcome>>

\* AgentDependencies() as constructed: nothing set.
InitPool ==
    /\ rrf_in = <<>> /\ rrf_out = <<>> /\ rrf_pc = "unused"
    /\ \E p \in {"openai", "gemini"} :
        settings = [default_match_count |-> 1, max_match_count |-> 1,
                    embedding_provider |-> p]
    /\ store = [semantic |-> <<>>, text |-> <<>>]
    /\ pg_pool = FALSE
    /\ openai_client = FALSE
    /\ pc = "idle"
    /\ call = NoCall
    /\ h = IdleHybrid
    /\ sem = IdleTask
    /\ txt = IdleTask
    /\ loop_blocked = FALSE
    /\ outcome = NoCompletion
    /\ documents = {} /\ chunks = {}
    /\ PipelineAtRest
    /\ PoolsAtRest
    /\ SessionAtRest
    /\ RowsAtRest

NextPool ==
    \/ LifeInitialize
    \/ LifeCreatePoolDone
    \/ LifeCleanup
    \/ LifeCloseDone

SpecPool == InitPool /\ [][NextPool]_vars


\* -------------------------------------------------------------- SpecHistory
\* The session state of AgentDependencies: user_preferences and
\* query_history, written by set_user_preference and add_to_history.

\* Mutant: the newest query is dropped when the history is full.
AddToHistory_DropNewest(history, query) ==
    LET appended == Append(history, query) IN
    IF Len(appended) > HistoryLimit
    THEN SubSeq(appended, 1, Len(appended) - 1)
    ELSE appended

\* self.query_history.append(query); if len(self.query_history) > 10:
\* self.query_history.pop(0).
AddToHistory(history, query) ==
    LET appended == Append(history, query) IN
    IF Len(appended) > HistoryLimit THEN Tail(appended) ELSE appended

\* add_to_history(query).
HistAdd ==
    /\ Len(added) < MaxAdds
    /\ \E query \in Queries :
        /\ query_history' = AddToHistory(query_history, query)
        /\ added' = Append(added, query)
    /\ UNCHANGED <<rrf_vars, row_vars, search_vars, db_vars, life_vars, user_preferences>>

\* set_user_preference(key, value): self.user_preferences[key] = value.
HistSetPreference ==
    /\ \E key \in PrefKeys, value \in PrefValues :
        user_preferences' = [user_preferences EXCEPT ![key] = value]
    /\ UNCHANGED <<rrf_vars, row_vars, search_vars, db_vars, life_vars, query_history, added>>

InitHistory ==
    /\ SearchAtRest
    /\ rrf_in = <<>> /\ rrf_out = <<>> /\ rrf_pc = "unused"
    /\ documents = {} /\ chunks = {}
    /\ PipelineAtRest
    /\ PoolsAtRest
    /\ SessionAtRest
    /\ RowsAtRest

NextHistory ==
    \/ HistAdd
    \/ HistSetPreference

SpecHistory == InitHistory /\ [][NextHistory]_vars

\* ----------------------------------------------------------------- SpecRows
\* The loop of semantic_search and text_search over the rows conn.fetch
\* returned, inside the function's try / except Exception.

\* A nullable text column: SQL NULL (Python None) or a text.
NullText == [is_null |-> TRUE, text |-> ""]

TextOf(t) == [is_null |-> FALSE, text |-> t]

\* A Python dict, as its set of <<key, value>> items.
EmptyDict == {}

\* The chunk_metadata column as asyncpg hands it over: None, a str holding
\* the JSON text, or a dict when a codec decoded it.
MetadataNone == [kind |-> "none", text |-> "", items |-> EmptyDict]

MetadataStr(t) == [kind |-> "str", text |-> t, items |-> EmptyDict]

MetadataDict(d) == [kind |-> "dict", text |-> "", items |-> d]

MetadataValues ==
    {MetadataNone, MetadataDict({<<"page", 1>>}), MetadataStr("{}"),
     MetadataStr("{\"page\": 1}"), MetadataStr("[1]"), MetadataStr("null"),
     MetadataStr("{page")}

TitleValues == {NullText, TextOf(""), TextOf("doc title")}

SourceValues == {NullText, TextOf("doc source")}

\* The i-th row of a result set: ids and similarity by position.
FetchedRow(i, metadata, title, source) ==
    [chunk_id |-> <<"c1", "c2", "c3">>[i],
     document_id |-> "d1",
     similarity |-> MaxRows + 2 - i,
     chunk_metadata |-> metadata,
     document_title |-> title,
     document_source |-> source]

\* The result sets of at most n rows.
RECURSIVE ResultSets(_)
ResultSets(n) ==
    IF n = 0 THEN {<<>>}
    ELSE LET shorter == ResultSets(n - 1) IN
         shorter \cup
         {Append(rows, FetchedRow(n, m, t, src)) :
             rows \in {r \in shorter : Len(r) = n - 1},
             m \in MetadataValues, t \in TitleValues, src \in SourceValues}

\* json.loads(text): the value the text denotes, or JSONDecodeError.
JsonLoads(text) ==
    CASE text = "{}" -> [raised |-> FALSE, type |-> "dict", items |-> EmptyDict]
      [] text = "{\"page\": 1}" ->
            [raised |-> FALSE, type |-> "dict", items |-> {<<"page", 1>>}]
      [] text = "[1]" -> [raised |-> FALSE, type |-> "list", items |-> EmptyDict]
      [] text = "null" -> [raised |-> FALSE, type |-> "none", items |-> EmptyDict]
      [] OTHER -> [raised |-> TRUE, type |-> "none", items |-> EmptyDict]

\* "if isinstance(chunk_metadata, str): json.loads(...) elif chunk_metadata
\* is None: {}": the value passed as metadata=.
DecodedMetadata(metadata) ==
    CASE metadata.kind = "str" -> JsonLoads(metadata.text)
      [] metadata.kind = "none" ->
            [raised |-> FALSE, type |-> "dict", items |-> EmptyDict]
      [] OTHER -> [raised |-> FALSE, type |-> "dict", items |-> metadata.items]

\* title = row['document_title'] or row['document_source'].
RowTitle(row) ==
    IF row.document_title.is_null \/ row.document_title.text = ""
    THEN row.document_source
    ELSE row.document_title

\* One pass of the loop body: the SearchResult appended, or the exception of
\* json.loads or of SearchResult's validation (metadata: Dict[str, Any],
\* document_title: str and document_source: str accept no None).
MapRow(row) ==
    LET decoded == DecodedMetadata(row.chunk_metadata)
        title == RowTitle(row)
    IN  IF decoded.raised
        THEN [raised |-> TRUE, result |-> <<>>]
        ELSE IF decoded.type # "dict" \/ title.is_null \/ row.document_source.is_null
        THEN [raised |-> TRUE, result |-> <<>>]
        ELSE [raised |-> FALSE,
              result |-> <<[chunk_id |-> row.chunk_id,
                            document_id |-> row.document_id,
                            similarity |-> row.similarity,
                            metadata |-> decoded.items,
                            document_title |-> title.text,
                            document_source |-> row.document_source.text]>>]

\* "for row in rows: ... search_results.append(...)" from row i on, with
\* search_results as it stands: the list when the loop ends, or the
\* exception that ended it.
RECURSIVE MapRowsFrom(_, _, _)
MapRowsFrom(rows, i, search_results) ==
    IF i > Len(rows)
    THEN [raised |-> FALSE, result |-> search_results]
    ELSE LET one == MapRow(rows[i]) IN
         IF one.raised
         THEN [raised |-> TRUE, result |-> search_results]
         ELSE MapRowsFrom(rows, i + 1, search_results \o one.result)

\* Mutant: what was mapped before the exception is returned.
ChannelReturn_Partial(rows) == MapRowsFrom(rows, 1, <<>>).result

\* "return search_results", or "except Exception: ... return []".
ChannelReturn(rows) ==
    LET loop == MapRowsFrom(rows, 1, <<>>) IN
    IF loop.raised THEN <<>> ELSE loop.result

\* semantic_search maps the rows of its query.
SemanticRowsMapped ==
    /\ row_pc = "fetched"
    /\ mapped' = ChannelReturn(fetched)
    /\ row_pc' = "semantic_search"
    /\ UNCHANGED <<rrf_vars, session_vars, search_vars, db_vars, life_vars, fetched>>

\* text_search maps the rows of its query.
TextRowsMapped ==
    /\ row_pc = "fetched"
    /\ mapped' = ChannelReturn(fetched)
    /\ row_pc' = "text_search"
    /\ UNCHANGED <<rrf_vars, session_vars, search_vars, db_vars, life_vars, fetched>>

InitRows ==
    /\ rrf_in = <<>> /\ rrf_out = <<>> /\ rrf_pc = "unused"
    /\ SearchAtRest
    /\ documents = {} /\ chunks = {}
    /\ PipelineAtRest
    /\ PoolsAtRest
    /\ SessionAtRest
    /\ fetched \in ResultSets(MaxRows)
    /\ mapped = <<>>
    /\ row_pc = "fetched"

NextRows ==
    \/ SemanticRowsMapped
    \/ TextRowsMapped

SpecRows == InitRows /\ [][NextRows]_vars

\* ------------------------------------------------- claims on the fusion

ListIds(results) == {results[i].chunk_id : i \in DOMAIN results}

InputIds == UNION {ListIds(rrf_in[l]) : l \in DOMAIN rrf_in}

OutputIds == ListIds(rrf_out)

NoRepeatedId(results) ==
    \A i, j \in DOMAIN results : results[i].chunk_id = results[j].chunk_id => i = j

InputsWithoutRepeats == \A l \in DOMAIN rrf_in : NoRepeatedId(rrf_in[l])

\* Zero-based position of the first occurrence of id in results.
RankIn(results, id) ==
    (CHOOSE i \in DOMAIN results :
        /\ results[i].chunk_id = id
        /\ \A j \in DOMAIN results : results[j].chunk_id = id => i <= j) - 1

\* Sum over the lists l..Len(lists) that contain id of 1/(K_RRF + rank).
RECURSIVE RankSum(_, _, _)
RankSum(lists, id, l) ==
    IF l > Len(lists) THEN 0
    ELSE (IF id \in ListIds(lists[l])
          THEN Scale \div (K_RRF + RankIn(lists[l], id)) ELSE 0)
         + RankSum(lists, id, l + 1)

\* Index in the output of the (only) result that carries id.
OutputIndex(id) == CHOOSE i \in DOMAIN rrf_out : rrf_out[i].chunk_id = id

FusedScore(id) == rrf_out[OutputIndex(id)].similarity

\* Where id first occurs in the input: earlier list first, then earlier position.
FirstOccurrence(id) ==
    LET l == CHOOSE m \in DOMAIN rrf_in :
                 /\ id \in ListIds(rrf_in[m])
                 /\ \A n \in DOMAIN rrf_in : id \in ListIds(rrf_in[n]) => m <= n
    IN  l * (MaxRank + 1) + RankIn(rrf_in[l], id)

\* C7: when no input list repeats a chunk id, the similarity of every output
\* result is the sum, over exactly the lists that contain its chunk id, of
\* 1/(k_rrf + rank) with rank the zero-based position in that list; the
\* similarity the inputs carried does not enter the score.
C7_ScoreIsSumOfReciprocalRanks ==
    (rrf_pc = "done" /\ InputsWithoutRepeats) =>
        \A i \in DOMAIN rrf_out :
            rrf_out[i].similarity = RankSum(rrf_in, rrf_out[i].chunk_id, 1)

\* A chunk present in both lists at different ranks, and one present in one
\* list only, have been fused.
C7_Witness ==
    /\ rrf_pc = "done" /\ InputsWithoutRepeats /\ Len(rrf_in) = 2
    /\ \E a, b \in OutputIds :
        /\ a \in ListIds(rrf_in[1]) /\ a \in ListIds(rrf_in[2])
        /\ RankIn(rrf_in[1], a) # RankIn(rrf_in[2], a)
        /\ b \in ListIds(rrf_in[2]) /\ b \notin ListIds(rrf_in[1])
        /\ FusedScore(a) # rrf_in[1][RankIn(rrf_in[1], a) + 1].similarity

\* C8: the output holds every distinct chunk id of the input lists, no other
\* chunk id, and each exactly once.
C8_OutputIsUnionOfIds ==
    rrf_pc = "done" =>
        /\ OutputIds = InputIds
        /\ Len(rrf_out) = Cardinality(InputIds)

\* An id repeated inside one list and present in the other list was fused,
\* next to an id present in one list only.
C8_Witness ==
    /\ rrf_pc = "done" /\ Len(rrf_in) = 2
    /\ ~NoRepeatedId(rrf_in[1])
    /\ ListIds(rrf_in[1]) \cap ListIds(rrf_in[2]) # {}
    /\ ListIds(rrf_in[2]) \ ListIds(rrf_in[1]) # {}
    /\ Len(rrf_out) = 3

\* C9: the output is sorted by non-increasing fused score, and of two chunks
\* with equal fused score the one whose first occurrence in the input comes
\* earlier (earlier list, then earlier position) is emitted first.
C9_SortedDescendingStableTies ==
    rrf_pc = "done" =>
        \A i, j \in DOMAIN rrf_out :
            i < j =>
                /\ rrf_out[i].similarity >= rrf_out[j].similarity
                /\ rrf_out[i].similarity = rrf_out[j].similarity =>
                       FirstOccurrence(rrf_out[i].chunk_id)
                           < FirstOccurrence(rrf_out[j].chunk_id)

\* Two chunks tie (ranks 0 and 1 swapped between the lists) above a third.
C9_Witness ==
    /\ rrf_pc = "done" /\ Len(rrf_out) = 3
    /\ rrf_out[1].similarity = rrf_out[2].similarity
    /\ rrf_out[2].similarity > rrf_out[3].similarity
    /\ Len(rrf_in) = 2
    /\ rrf_out[1].chunk_id = rrf_in[1][1].chunk_id
    /\ rrf_out[2].chunk_id = rrf_in[2][1].chunk_id

BestRank(id) ==
    LET r1 == RankIn(rrf_in[1], id)
        r2 == RankIn(rrf_in[2], id)
    IN  IF r1 <= r2 THEN r1 ELSE r2

InBoth(id) == id \in ListIds(rrf_in[1]) /\ id \in ListIds(rrf_in[2])

InOneOnly(id) == (id \in ListIds(rrf_in[1])) # (id \in ListIds(rrf_in[2]))

RankInOwnList(id) ==
    IF id \in ListIds(rrf_in[1]) THEN RankIn(rrf_in[1], id) ELSE RankIn(rrf_in[2], id)

\* C10: for two lists without repeated ids, a chunk A present in both lists
\* outscores, and precedes in the output, every chunk B present in one list
\* only at a rank no better than A's best rank.
C10_BothListsBeatOneList ==
    (rrf_pc = "done" /\ Len(rrf_in) = 2 /\ InputsWithoutRepeats) =>
        \A a, b \in InputIds :
            (InBoth(a) /\ InOneOnly(b) /\ RankInOwnList(b) >= BestRank(a)) =>
                /\ FusedScore(a) > FusedScore(b)
                /\ OutputIndex(a) < OutputIndex(b)

\* A is third in the first list and first in the second; B, absent from the
\* second list, is first in the first list, ahead of A there, yet A is
\* emitted before B.
C10_Witness ==
    /\ rrf_pc = "done" /\ Len(rrf_in) = 2 /\ InputsWithoutRepeats
    /\ \E a, b \in InputIds :
        /\ InBoth(a) /\ InOneOnly(b)
        /\ b \in ListIds(rrf_in[1])
        /\ RankIn(rrf_in[1], a) = 2 /\ RankIn(rrf_in[2], a) = 0
        /\ RankIn(rrf_in[1], b) = 0
        /\ OutputIndex(a) < OutputIndex(b)

\* ------------------------------------------------- claims on the searches

\* The limit the caller asked for: default_match_count when omitted.
RequestedCount ==
    IF call.match_count = None THEN settings.default_match_count ELSE call.match_count

\* min(k, max_match_count)
ClampedCount ==
    IF RequestedCount <= settings.max_match_count
    THEN RequestedCount ELSE settings.max_match_count

IdsOf(results) == [i \in DOMAIN results |-> results[i].chunk_id]

Prefix(results, n) == [i \in 1..(IF n <= Len(results) THEN n ELSE Len(results)) |-> results[i]]

HybridReturned == pc = "returned" /\ call.fn = "hybrid_search"

\* Every step hybrid_search relied on failed: both channels of the gather, or
\* the semantic_search of the fallback.
EverythingFailed ==
    \/ h.failed = "none" /\ h.semantic_failed # "none" /\ h.text_failed # "none"
    \/ h.failed # "none" /\ sem.failed # "none"

\* C1: hybrid_search never hands an exception to its caller, whatever fails
\* (settings access, embedding, pool creation, acquisition, query, row
\* mapping, fusion): a call in progress always has a next step, a finished
\* call has returned a list, and the list is empty when everything failed.
C1_HybridSearchNeverRaises ==
    call.fn = "hybrid_search" =>
        /\ outcome.kind # "exception"
        /\ pc \in {"gather", "fallback"} => ENABLED Next
        /\ pc = "returned" => outcome.kind = "list"
        /\ (pc = "returned" /\ EverythingFailed) => outcome.value = <<>>

\* The lexical channel failed, the fusion of the semantic list raised, and
\* the fallback's semantic_search failed too: hybrid_search returned [].
C1_Witness ==
    /\ HybridReturned
    /\ h.text_failed = "query" /\ h.semantic_failed = "none"
    /\ h.semantic_results # <<>>
    /\ h.failed = "fusion"
    /\ sem.failed = "embedding"
    /\ outcome = [kind |-> "list", value |-> <<>>]

ExactlyOneChannelFailed ==
    /\ h.failed = "none"
    /\ (h.semantic_failed = "none") # (h.text_failed = "none")

SurvivingList ==
    IF h.semantic_failed = "none" THEN h.semantic_results ELSE h.text_results

\* C2: when exactly one channel fails during hybrid_search(k) (and nothing
\* else does), the call returns, and the chunk ids returned are the first
\* min(k, max_match_count) chunk ids of the list the other channel returned,
\* in that list's order.
C2_SurvivingChannelIsUsed ==
    (HybridReturned /\ ExactlyOneChannelFailed) =>
        /\ outcome.kind = "list"
        /\ IdsOf(outcome.value) = IdsOf(Prefix(SurvivingList, ClampedCount))

\* The lexical query failed and the semantic list, two chunks long, was cut
\* to the one chunk asked for.
C2_Witness ==
    /\ HybridReturned /\ ExactlyOneChannelFailed
    /\ h.text_failed = "query"
    /\ Len(h.semantic_results) = 2
    /\ Len(outcome.value) = 1
    /\ outcome.value[1].chunk_id = h.semantic_results[1].chunk_id

\* A request of the semantic channel is on its way: the embedding request,
\* the pool creation, the acquisition or the vector query.
SemInFlight == sem.pc \in {"init_client", "embed", "initialize", "acquire", "fetch"}

\* C3: the two channel calls of hybrid_search are issued concurrently,
\* neither blocking the other: while a request of the semantic channel
\* (its embedding request or its vector query) has not completed, the lexical
\* channel, if it has not yet issued its store query, is free to take its
\* step; this for either embedding provider.
C3_ChannelsDoNotBlockEachOther ==
    (pc = "gather" /\ SemInFlight /\ txt.pc = "ready") => ENABLED TxtStart

\* What the code does with the Gemini provider: for as long as the embedding
\* request is out, text_search has not taken a single step.
C3_GeminiEmbeddingHoldsLexicalBack ==
    (pc = "gather" /\ settings.embedding_provider = "gemini" /\ sem.pc = "embed") =>
        txt.pc = "ready"

\* What the code does with the OpenAI provider: this state, in which the
\* lexical query is out while the embedding request is, is reached.
C3_OpenAIOverlap ==
    /\ pc = "gather" /\ settings.embedding_provider = "openai"
    /\ sem.pc = "embed" /\ txt.pc = "fetch"

EmptyList == [kind |-> "list", value |-> <<>>]

\* C4: semantic_search and text_search never raise, and return the empty
\* list whenever a step of theirs fails (settings access, embedding, lazy
\* initialisation, pool acquisition, store query, row mapping); this when
\* called by the agent and when called by hybrid_search.
C4_ChannelsReturnEmptyOnFailure ==
    /\ sem.completion.kind # "exception"
    /\ txt.completion.kind # "exception"
    /\ (sem.pc = "done" /\ sem.failed # "none") => sem.completion = EmptyList
    /\ (txt.pc = "done" /\ txt.failed # "none") => txt.completion = EmptyList
    /\ (pc = "returned" /\ call.fn = "semantic_search") => outcome = sem.completion
    /\ (pc = "returned" /\ call.fn = "text_search") => outcome = txt.completion

\* semantic_search, called by the agent on a store with chunks, fetched its
\* rows, failed to map them, and returned [].
C4_Witness ==
    /\ pc = "returned" /\ call.fn = "semantic_search"
    /\ sem.failed = "mapping"
    /\ sem.match_count >= 1 /\ store.semantic # <<>>
    /\ outcome = EmptyList

\* C5: semantic_search and hybrid_search clamp the limit: for every k (above
\* max_match_count and omitted included) and on every path, the fallback of
\* hybrid_search included, the returned list has at most
\* min(k, max_match_count) elements, k being default_match_count when omitted.
C5_LimitIsClamped ==
    (pc = "returned" /\ call.fn \in {"semantic_search", "hybrid_search"}
        /\ outcome.kind = "list") =>
        Len(outcome.value) <= ClampedCount

\* hybrid_search asked for more than the maximum, fusion raised, and the
\* fallback returned exactly max_match_count chunks of a larger store.
C5_Witness ==
    /\ HybridReturned
    /\ h.failed = "fusion"
    /\ call.match_count > settings.max_match_count
    /\ Len(store.semantic) > settings.max_match_count
    /\ outcome.kind = "list"
    /\ Len(outcome.value) = settings.max_match_count

\* C6: text_search called by the agent returns at most max_match_count
\* results, whatever the limit asked for.
C6_TextSearchAtMostMaximum ==
    (pc = "returned" /\ call.fn = "text_search" /\ outcome.kind = "list") =>
        Len(outcome.value) <= settings.max_match_count

\* ------------------------------------------- the three-chunk scenario

ScenarioInput ==
    /\ rrf_pc = "done" /\ Len(rrf_in) = 2
    /\ IdsOf(rrf_in[1]) = <<"c1", "c2", "c3">>
    /\ IdsOf(rrf_in[2]) = <<"c2", "c3", "c1">>

\* 1/n, in units of 1/Scale.
OneOver(n) == Scale \div n

\* The statement as the scenario gives it: order C2, C1, C3 with
\* C2 = 1/60 + 1/61, C1 = 1/60 + 1/62 and C3 = 1/61 + 1/61.
C11_ScenarioAsStated ==
    ScenarioInput =>
        /\ IdsOf(rrf_out) = <<"c2", "c1", "c3">>
        /\ FusedScore("c2") = OneOver(60) + OneOver(61)
        /\ FusedScore("c1") = OneOver(60) + OneOver(62)
        /\ FusedScore("c3") = OneOver(61) + OneOver(61)

\* C11 (amended): with semantic ranks [C1, C2, C3], lexical ranks
\* [C2, C3, C1] and k_rrf = 60, reciprocal_rank_fusion returns the order
\* C2, C1, C3 with C2 = 1/60 + 1/61, C1 = 1/60 + 1/62 and C3 = 1/62 + 1/61
\* (C3 is third in the semantic list and second in the lexical one).
C11_ScenarioOrderAndScores ==
    ScenarioInput =>
        /\ IdsOf(rrf_out) = <<"c2", "c1", "c3">>
        /\ FusedScore("c2") = OneOver(60) + OneOver(61)
        /\ FusedScore("c1") = OneOver(60) + OneOver(62)
        /\ FusedScore("c3") = OneOver(62) + OneOver(61)
        /\ FusedScore("c2") > FusedScore("c1")
        /\ FusedScore("c1") > FusedScore("c3")

\* The scenario's two lists have been fused.
C11_Witness ==
    /\ ScenarioInput
    /\ Len(rrf_out) = 3
    /\ rrf_in[1][1].similarity # rrf_out[2].similarity

\* ------------------------------------------------- the hybrid procedure

\* The fusion ran and did not raise.
FusionSucceeded ==
    /\ HybridReturned /\ h.failed = "none"
    /\ (h.semantic_results # <<>> \/ h.text_results # <<>>)

\* C12: when at least one channel returned a non-empty list and the fusion
\* succeeds, hybrid_search(k) returns exactly the first min(k_eff, n)
\* elements of reciprocal_rank_fusion([semantic_list, lexical_list], 60),
\* k_eff = min(k, max_match_count), n the number of distinct chunks over
\* the two lists, the semantic list being the first of the two.
C12_HybridIsPrefixOfFusion ==
    FusionSucceeded =>
        /\ outcome.kind = "list"
        /\ outcome.value =
               Prefix(reciprocal_rank_fusion(<<h.semantic_results, h.text_results>>, K_RRF),
                      ClampedCount)
        /\ Len(outcome.value) =
               Min(ClampedCount,
                   Cardinality(ListIds(h.semantic_results) \cup ListIds(h.text_results)))

\* c1 heads the semantic list and c2 the lexical one, both have the same
\* fused score, and the one chunk asked for is the semantic list's.
C12_Witness ==
    /\ FusionSucceeded
    /\ IdsOf(h.semantic_results) = <<"c1", "c2">>
    /\ IdsOf(h.text_results) = <<"c2", "c1">>
    /\ ClampedCount = 1
    /\ IdsOf(outcome.value) = <<"c1">>

\* The handler of hybrid_search was entered.
HandlerEntered == call.fn = "hybrid_search" /\ h.failed # "none"

\* The limit a channel works with when called with arg.
LimitFor(arg) ==
    Min(IF arg = None THEN settings.default_match_count ELSE arg,
        settings.max_match_count)

\* C13: when the fusion (or any other step of the hybrid procedure) raises,
\* hybrid_search runs semantic_search again with the same limit and returns
\* its result: the first min(k, max_match_count) rows of the semantic
\* ranking, or the empty list when that semantic_search fails too.
C13_FallbackIsSemanticSearch ==
    HandlerEntered =>
        /\ pc \in {"fallback", "returned"}
        /\ sem.pc # "idle"
        /\ LimitFor(sem.arg) = ClampedCount
        /\ pc = "returned" =>
               /\ sem.pc = "done"
               /\ outcome.kind = "list"
               /\ outcome.value =
                      IF sem.failed = "none"
                      THEN Prefix(StoreSemanticQuery(Len(store.semantic)), ClampedCount)
                      ELSE <<>>

\* The semantic channel failed inside the gather, the fusion of the lexical
\* list raised, and the second semantic_search gave the list returned.
C13_Witness ==
    /\ HybridReturned
    /\ h.failed = "fusion"
    /\ h.semantic_failed = "embedding"
    /\ sem.failed = "none"
    /\ Len(outcome.value) = 2
    /\ Len(store.semantic) = 3

\* The gather of a hybrid_search gave two empty lists.
BothChannelsEmpty ==
    /\ call.fn = "hybrid_search"
    /\ pc \in {"fallback", "returned"}
    /\ h.failed # "settings"
    /\ h.semantic_results = <<>> /\ h.text_results = <<>>

\* C14: when both channels return the empty list, hybrid_search returns the
\* empty list at once: no fusion runs (so none can raise and send the call
\* to the handler) and neither channel is invoked a second time.
C14_BothEmptyReturnsAtOnce ==
    BothChannelsEmpty =>
        /\ pc = "returned"
        /\ h.failed = "none"
        /\ outcome = EmptyList
        /\ sem.pc = "done" /\ sem.failed = h.semantic_failed
        /\ txt.pc = "done" /\ txt.failed = h.text_failed

\* The embedding failed and the full-text query matched nothing in a store
\* that holds chunks.
C14_Witness ==
    /\ BothChannelsEmpty
    /\ h.semantic_failed = "embedding" /\ h.text_failed = "none"
    /\ store.semantic # <<>> /\ store.text = <<>>
    /\ outcome = EmptyList

\* hybrid_search is inside its gather.
InGather == call.fn = "hybrid_search" /\ pc = "gather"

\* The statement as given: with effective limit k, the semantic channel's
\* store query runs with row limit 2k and the lexical channel is invoked
\* with limit 2k.
C15_SemanticQueryTakes2k ==
    InGather =>
        /\ sem.pc = "fetch" => sem.limit = 2 * ClampedCount
        /\ txt.arg = 2 * ClampedCount

\* C15 (amended): hybrid_search with effective limit k invokes both
\* channels with limit 2k; the semantic channel clamps that limit again, so
\* its store query runs with row limit min(2k, max_match_count), which is
\* 2k exactly when 2k <= max_match_count.
C15_ChannelsInvokedWith2k ==
    InGather =>
        /\ sem.arg = 2 * ClampedCount
        /\ txt.arg = 2 * ClampedCount
        /\ sem.pc = "fetch" =>
               /\ sem.limit = Min(2 * ClampedCount, settings.max_match_count)
               /\ (2 * ClampedCount <= settings.max_match_count
                      => sem.limit = 2 * ClampedCount)

\* k = max_match_count = 2: both channels were invoked with 4 and the
\* semantic query was sent with LIMIT 2.
C15_Witness ==
    /\ InGather
    /\ ClampedCount = 2 /\ settings.max_match_count = 2
    /\ sem.pc = "fetch" /\ sem.arg = 4 /\ sem.limit = 2
    /\ txt.arg = 4

\* The channel coroutine has sent its query.
QuerySent(task) ==
    \/ task.pc = "fetch"
    \/ task.pc = "done" /\ task.failed \in {"none", "query", "mapping"}

\* C16: text_search with limit k asks the store for exactly
\* 2 * min(k, max_match_count) rows (k the default when omitted) and
\* semantic_search for exactly min(k, max_match_count); each returns the
\* rows the store has up to that number.
C16_RowLimits ==
    /\ QuerySent(txt) =>
           /\ txt.limit = 2 * LimitFor(txt.arg)
           /\ (txt.pc = "done" /\ txt.failed = "none") =>
                  Len(txt.completion.value) = Min(txt.limit, Len(store.text))
    /\ QuerySent(sem) =>
           /\ sem.limit = LimitFor(sem.arg)
           /\ (sem.pc = "done" /\ sem.failed = "none") =>
                  Len(sem.completion.value) = Min(sem.limit, Len(store.semantic))

\* text_search called without a limit, default 1: two rows came back.
C16_Witness ==
    /\ call.fn = "text_search" /\ call.match_count = None
    /\ settings.default_match_count = 1
    /\ txt.pc = "done" /\ txt.failed = "none"
    /\ txt.limit = 2
    /\ Len(txt.completion.value) = 2
    /\ Len(store.text) = 3

\* ------------------------------------------------------------ text_weight

\* The limit the channels of a hybrid_search work with.
ChannelLimit == Min(2 * ClampedCount, settings.max_match_count)

\* What each channel gave the gather, from the store and the channel's
\* outcome.
SemanticListGiven ==
    IF h.semantic_failed = "none" THEN StoreSemanticQuery(ChannelLimit) ELSE <<>>

TextListGiven ==
    IF h.text_failed = "none" THEN StoreTextQuery(2 * ChannelLimit) ELSE <<>>

\* The result of hybrid_search from the limit, the settings, the store and
\* the outcomes of the channels and of the fusion.
ResultWithoutWeight ==
    IF h.failed # "none"
    THEN IF sem.failed = "none" THEN StoreSemanticQuery(ClampedCount) ELSE <<>>
    ELSE Prefix(reciprocal_rank_fusion(<<SemanticListGiven, TextListGiven>>, K_RRF),
                ClampedCount)

\* C19: text_weight has no effect on the result of hybrid_search: the list
\* returned, scores included, is determined by the limit, the store and the
\* outcomes of the channels and of the fusion, so two calls that differ
\* only in text_weight return the same list.
C19_TextWeightIsIgnored ==
    HybridReturned => outcome = [kind |-> "list", value |-> ResultWithoutWeight]

\* A call that passed a text_weight returned two fused chunks, both found by
\* the lexical channel.
C19_Witness ==
    /\ HybridReturned
    /\ call.text_weight # None
    /\ h.failed = "none"
    /\ Len(h.text_results) >= 2 /\ Len(h.semantic_results) >= 2
    /\ Len(outcome.value) = 2

\* ------------------------------------------------------ the store's tables

\* clean_db() has returned and nothing was committed since its TRUNCATE.
Cleaned == cleaner.pc = "returned" /\ oplog.first # None

\* C17: clean removes every document and, by cascade, every chunk: once
\* clean has completed, from whatever the store held, the documents count
\* and the chunks count are both 0 and semantic_search returns the empty
\* list, until something is ingested again; a clean of an already empty
\* store completes just the same, finds nothing to remove and leaves the
\* store empty.
C17_CleanEmptiesTheStore ==
    Cleaned =>
        /\ Cardinality(documents) = 0
        /\ Cardinality(chunks) = 0
        /\ \A k \in MatchCounts, end \in {"ok", "query"} :
               SemanticSearchOutcome(k, end) = EmptyList
        /\ oplog.latest \in {None, 0}
        /\ oplog.search \in {None, 0}
        /\ oplog.search # None => outcome = EmptyList

\* A first clean removed a document and its two chunks, a second clean found
\* the store empty and returned, and a semantic_search then returned [].
C17_Witness ==
    /\ cleaner.pc = "returned"
    /\ oplog = [first |-> 3, latest |-> 0, search |-> 0]
    /\ call.match_count = 1
    /\ outcome = EmptyList

\* The chunk rows of document d a reader sees.
VisibleChunksOf(d) == {c \in chunks : c.document_id = d}

\* C18: atomic ingestion.  In every state a concurrent reader can observe,
\* a document row is visible only together with all of its chunk rows (and
\* no chunk row without its document row); when embedding or persistence
\* fails partway through a document, no document row and no chunk row of
\* that document is in the store afterwards.
C18_IngestionIsAtomic ==
    /\ \A d \in documents :
           {c.index : c \in VisibleChunksOf(d)} = 0..(ing.counts[d] - 1)
    /\ \A c \in chunks : c.document_id \in documents
    /\ ing.pc \in {"embed", "persist", "insert_chunks", "failed"} =>
           /\ ing.document_id \notin documents
           /\ VisibleChunksOf(ing.document_id) = {}

\* The first document is visible with both its chunks; the second, of two
\* chunks as well, failed in persistence after its document row and one
\* chunk row had been written, and none of its rows is visible.
C18_Witness ==
    /\ ing.pc = "failed" /\ ing.stage = "persistence"
    /\ ing.document_id = 2 /\ ing.chunk_count = 2 /\ ing.written = 2
    /\ documents = {1}
    /\ Cardinality(VisibleChunksOf(1)) = 2

\* ------------------------------------------------------- the pool lifecycle

\* The caller is between calls.
BetweenCalls == life.pc = "idle"

\* C20: after initialize() returns successfully pg_pool is set; after
\* cleanup() returns pg_pool is unset and the pool it held was closed
\* exactly once; so no sequence of initialize() and cleanup() calls closes
\* the same pool twice or leaves a closed pool referenced.
C20_PoolLifecycle ==
    /\ (BetweenCalls /\ life.last = "initialize returned") =>
           pg_pool /\ pool_ref # 0
    /\ (BetweenCalls /\ life.last = "cleanup returned") =>
           /\ ~pg_pool /\ pool_ref = 0
           /\ life.held # 0 =>
                  pools[life.held].closed /\ pools[life.held].close_calls = 1
    /\ \A p \in DOMAIN pools : pools[p].close_calls <= 1
    /\ (BetweenCalls /\ pool_ref # 0) => ~pools[pool_ref].closed

\* As long as no pool.close() has raised, the lifecycle is as stated.
C20_HoldsWhileCloseReturns == ~life.close_raised => C20_PoolLifecycle

\* A cleanup() without a pool changes nothing but the caller's position.
C20_CleanupWithoutPoolIsNoOp ==
    [][(BetweenCalls /\ ~pg_pool /\ life'.last = "cleanup returned"
            /\ life'.pc = "idle" /\ life' # life)
        => UNCHANGED <<pools, pool_ref, pg_pool, openai_client, settings>>]_vars

\* cleanup() raised out of pool.close(), and an initialize() after it
\* returned successfully with pg_pool still the closed pool.
C20_ClosedPoolStaysReferenced ==
    /\ BetweenCalls
    /\ life.last = "initialize returned"
    /\ life.close_raised
    /\ pool_ref = 1 /\ pools[1].closed
    /\ Len(pools) = 1

\* ------------------------------------------------------------- the gather

\* The next step of a channel coroutine that is not done can be taken.
SemCanStep ==
    ENABLED (SemStart \/ SemClientInitDone \/ SemEmbedDone \/ SemInitDone
             \/ SemAcquired \/ SemFetched)

TxtCanStep ==
    ENABLED (TxtStart \/ TxtInitDone \/ TxtAcquired \/ TxtFetched)

\* C21: the two channel tasks of hybrid_search are joined, not raced: while
\* one of them is not done the call does not leave the gather, a channel
\* that failed leaves the other one running (its next step can be taken),
\* and when the call has left the gather both channels had completed, each
\* with a list or with a failure.
C21_ChannelsAreJoined ==
    /\ (InGather /\ (sem.pc # "done" \/ txt.pc # "done")) => ~ENABLED HybridGathered
    /\ (InGather /\ sem.pc = "done" /\ sem.failed # "none" /\ txt.pc # "done")
           => TxtCanStep
    /\ (InGather /\ txt.pc = "done" /\ txt.failed # "none" /\ sem.pc # "done")
           => SemCanStep
    /\ (call.fn = "hybrid_search" /\ pc \in {"fallback", "returned"}
            /\ h.failed # "settings") =>
           /\ txt.pc = "done" /\ txt.completion.kind = "list"
           /\ h.text_failed = txt.failed
           /\ h.text_results = txt.completion.value
           /\ h.failed = "none" =>
                  /\ sem.pc = "done" /\ sem.completion.kind = "list"
                  /\ h.semantic_failed = sem.failed
                  /\ h.semantic_results = sem.completion.value

\* The semantic channel failed at its first statement, before the lexical
\* channel had taken a step; the lexical channel ran to its end all the same
\* and its rows were fused and returned.
C21_Witness ==
    /\ HybridReturned
    /\ h.failed = "none"
    /\ h.semantic_failed = "settings"
    /\ h.text_failed = "none"
    /\ Len(h.text_results) = 2
    /\ Len(outcome.value) = 2

\* ---------------------------------------------------------- connections

\* One channel call uses its connection as a scope around its one query.
ScopedConnection(task) ==
    /\ task.conn \in {0, 1}
    /\ task.acquires <= 1
    /\ task.conn = 1 <=> task.pc = "fetch"
    /\ task.pc = "fetch" => task.acquires = 1
    /\ task.pc \in {"idle", "ready", "done"} => task.conn = 0

\* C22: each semantic_search or text_search call acquires at most one
\* pooled connection, holds it exactly while its one store query is in
\* flight, and has released it when the call is done, whether the query
\* succeeded or failed; so the calls of a hybrid_search hold at most two
\* connections at once, and none once a tool call has returned.
C22_ConnectionsAreScoped ==
    /\ ScopedConnection(sem)
    /\ ScopedConnection(txt)
    /\ sem.conn + txt.conn <= 2
    /\ pc \in {"idle", "returned"} => sem.conn + txt.conn = 0

\* Both channels of a hybrid_search have their query in flight: two
\* connections are held.
C22_Witness ==
    /\ InGather
    /\ sem.pc = "fetch" /\ txt.pc = "fetch"
    /\ sem.conn + txt.conn = 2

\* The semantic query failed and its connection is back in the pool while
\* the lexical query is still in flight.
C22_ReleasedOnFailure ==
    /\ InGather
    /\ sem.pc = "done" /\ sem.failed = "query"
    /\ sem.acquires = 1 /\ sem.conn = 0
    /\ txt.conn = 1

\* C23: a degraded channel cannot stall the facade: a hybrid_search that is
\* awaiting its two channels eventually returns, even when the semantic
\* channel's embedding request or store query never completes.
C23_DegradedChannelCannotStall == InGather ~> (pc = "returned")

\* ------------------------------------------------------------ the history

\* The most recent min(n, 10) of the n queries added, oldest first.
LastAdded ==
    LET n == Len(added)
        m == Min(n, HistoryLimit)
    IN SubSeq(added, n - m + 1, n)

\* C24: after n add_to_history calls query_history has length min(n, 10)
\* and is the most recent min(n, 10) queries in the order they were added;
\* a step that changes user_preferences leaves query_history as it was.
C24_HistoryKeepsLastTen ==
    /\ [](/\ Len(query_history) = Min(Len(added), HistoryLimit)
          /\ query_history = LastAdded)
    /\ [][user_preferences' # user_preferences
            => query_history' = query_history]_vars

\* More than ten queries were added, the oldest of a different text than
\* the oldest kept, and a preference was set.
C24_Witness ==
    /\ Len(added) > HistoryLimit
    /\ added[1] # query_history[1]
    /\ Len(query_history) = HistoryLimit
    /\ user_preferences["k1"] # NoPreference

\* ----------------------------------------------------- lazy initialisation

\* C25: lazy initialisation creates at most one pool: create_pool returns
\* at most one pool to one AgentDependencies, and no pool it returned is
\* without a reference before it was closed.
C25_AtMostOnePool ==
    /\ Len(pools) <= 1
    /\ \A i \in DOMAIN pools : i = pool_ref \/ pools[i].closed

\* -------------------------------------------------------- the row mapping

\* The JSON texts that denote an object, with the object's items.
JsonObjects == {<<"{}", {}>>, <<"{\"page\": 1}", {<<"page", 1>>}>>}

\* The map a row's chunk_metadata stands for: the column's own map, the
\* empty map for NULL, the object a JSON text denotes.
MetadataMapOf(row) ==
    LET metadata == row.chunk_metadata IN
    CASE metadata.kind = "dict" -> metadata.items
      [] metadata.kind = "none" -> {}
      [] OTHER -> (CHOOSE o \in JsonObjects : o[1] = metadata.text)[2]

\* The row's chunk_metadata is a text that denotes no JSON object.
UndecodableMetadata(row) ==
    /\ row.chunk_metadata.kind = "str"
    /\ \A o \in JsonObjects : o[1] # row.chunk_metadata.text

\* The row has no title: NULL or the empty text.
TitleMissing(row) ==
    row.document_title.is_null \/ row.document_title.text = ""

\* result is the SearchResult of row: same ids and similarity, metadata as
\* a map, the title or, when missing, the source.
IsResultOf(result, row) ==
    /\ result.chunk_id = row.chunk_id
    /\ result.document_id = row.document_id
    /\ result.similarity = row.similarity
    /\ ~UndecodableMetadata(row)
    /\ result.metadata = MetadataMapOf(row)
    /\ result.document_source = row.document_source.text
    /\ result.document_title =
        IF TitleMissing(row) THEN row.document_source.text
        ELSE row.document_title.text

\* C26: a channel returns one SearchResult per fetched row, in the rows'
\* order, or the empty list; with a row whose metadata cannot be decoded it
\* returns the empty list.
C26_AllRowsOrNone ==
    row_pc \in {"semantic_search", "text_search"} =>
        /\ \/ mapped = <<>>
           \/ /\ Len(mapped) = Len(fetched)
              /\ \A i \in DOMAIN fetched : IsResultOf(mapped[i], fetched[i])
        /\ (\E i \in DOMAIN fetched : UndecodableMetadata(fetched[i]))
            => mapped = <<>>

\* Two rows were mapped in order: the first with NULL metadata and a title,
\* the second with a JSON text and no title.
C26_Witness ==
    /\ row_pc = "text_search"
    /\ Len(fetched) = 2 /\ Len(mapped) = 2
    /\ fetched[1].chunk_metadata.kind = "none"
    /\ fetched[2].chunk_metadata = MetadataStr("{\"page\": 1}")
    /\ fetched[2].document_title.is_null
    /\ mapped[1].metadata = {} /\ mapped[2].metadata = {<<"page", 1>>}
    /\ mapped[2].document_title = "doc source"

\* The second of two rows has undecodable metadata, the first could be
\* mapped: the channel returned the empty list.
C26_OneBadRowEmptiesTheResult ==
    /\ row_pc = "semantic_search"
    /\ Len(fetched) = 2
    /\ ~UndecodableMetadata(fetched[1]) /\ ~fetched[1].document_source.is_null
    /\ fetched[2].chunk_metadata = MetadataStr("{page")
    /\ mapped = <<>>

====
